---- MODULE Spec2Model ----
(***************************************************************************)
(* A model of audio/decode/ad_mpg123.c: the libmpg123 adapter of the       *)
(* player.  The adapter's entry points (init, uninit, decode_packet,       *)
(* control) are the actions; libmpg123 and the demuxer are the             *)
(* environment, whose return values are drawn from small sets.             *)
(***************************************************************************)
EXTENDS Integers, Sequences, FiniteSets, TLC

VARIABLES
    lib,      \* process-wide libmpg123 reference: successful mpg123_init / mpg123_exit calls
    phase,    \* host's view of the session: "none", "open", "closed"
    handle,   \* con->handle: "NULL", "closed" (no feed open), "feed", "deleted"
    con,      \* struct ad_mpg123_context (da->priv)
    da,       \* the fields of struct dec_audio the adapter writes
    ret,      \* return value of the last entry point called
    last,     \* the inputs of the last entry point called
    est,      \* history of the bitrate estimator in this session
    ptsh,     \* history of the timestamp bookkeeping
    feedh     \* history of the feed session: was lost by a failed reset, is down

vars == <<lib, phase, handle, con, da, ret, last, est, ptsh, feedh>>

-----------------------------------------------------------------------------
(* Bounds of the model.                                                    *)

\* Width in bits of `unsigned int' in the model (the build has 32).
UIntBits == 3
\* Rewrites of the estimate by the variable-bitrate branch explored per session.
MaxWrites == 4
\* Sessions (init calls that reached mpg123_init successfully) explored.
MaxSessions == 2
\* Successful decodes explored between two timestamped packets.
MaxRun == 3

UINT_MAX == 2^UIntBits - 1

-----------------------------------------------------------------------------
(* C arithmetic.                                                           *)

Abs(x) == IF x < 0 THEN -x ELSE x

\* Integer division of C: truncation toward zero.
CDiv(a, b) ==
    IF (a >= 0) = (b > 0) THEN Abs(a) \div Abs(b) ELSE -(Abs(a) \div Abs(b))

\* A float is held as the integer number of 1/FixDen units it is equal to.
\* Every float the estimator produces here is 0 or lies in [2^16, 2^24),
\* where the spacing of single precision is a whole number of units.
FixDen == 2^7
FltMant == 2^24

RECURSIVE Ulp(_)
\* Spacing (in units) of single-precision floats around q units.
Ulp(q) == IF q < FltMant THEN 1 ELSE 2 * Ulp(q \div 2)

\* n/d units rounded to the nearest float, ties to the even mantissa.
RoundF(n, d) ==
    LET u == Ulp(n \div d)
        D == d * u
        k == n \div D
        r == n % D
    IN  IF 2 * r < D THEN k * u
        ELSE IF 2 * r > D THEN (k + 1) * u
        ELSE IF k % 2 = 0 THEN k * u ELSE (k + 1) * u

\* The integer a C int or unsigned becomes when converted to float.
IntToFloat(i) == RoundF(i, 1)
\* float(i) * f, f + float(i) and f / float(i), each rounded to float
\* (a negative result stands for the infinity or NaN of a division by 0).
FMulInt(i, f) == RoundF(IntToFloat(i) * f, 1)
FAddInt(f, i) == RoundF(f + IntToFloat(i) * FixDen, 1)
FDivInt(f, i) == IF i = 0 THEN 0 - 1 ELSE RoundF(f, IntToFloat(i))
\* (int) (f + 0.5): the sum is exact in double, the cast truncates.
FloatPlusHalfToInt(f) == (2 * f + FixDen) \div (2 * FixDen)

\* The floats the fixed-point form holds exactly.
IsModelFloat(f) == f = 0 \/ (f >= FltMant \div 2 /\ f % Ulp(f) = 0)

-----------------------------------------------------------------------------
(* libmpg123 and host names used by the adapter.                           *)

MPG123_OK == "MPG123_OK"
MPG123_ERR == "MPG123_ERR"
MPG123_NEED_MORE == "MPG123_NEED_MORE"
MPG123_NEW_FORMAT == "MPG123_NEW_FORMAT"
MPG123_DONE == "MPG123_DONE"

MPG123_CBR == "MPG123_CBR"
MPG123_VBR == "MPG123_VBR"
MPG123_ABR == "MPG123_ABR"

MP_NOPTS_VALUE == "MP_NOPTS_VALUE"

AD_ERR == "AD_ERR"
AD_EOF == "AD_EOF"

-----------------------------------------------------------------------------
(* Format mapping.                                                         *)

\* 0 stands for "no host format".
mpg123_format_to_af(mpg123_encoding) ==
    CASE mpg123_encoding = "MPG123_ENC_SIGNED_8"  -> "AF_FORMAT_S8"
      [] mpg123_encoding = "MPG123_ENC_SIGNED_16" -> "AF_FORMAT_S16"
      [] mpg123_encoding = "MPG123_ENC_SIGNED_32" -> "AF_FORMAT_S32"
      [] mpg123_encoding = "MPG123_ENC_FLOAT_32"  -> "AF_FORMAT_FLOAT"
      [] OTHER -> "0"

\* Bytes per sample of a host format.
af_fmt2bps(af) ==
    CASE af = "AF_FORMAT_S8"    -> 1
      [] af = "AF_FORMAT_S16"   -> 2
      [] af = "AF_FORMAT_S32"   -> 4
      [] af = "AF_FORMAT_FLOAT" -> 4
      [] OTHER -> 0

-----------------------------------------------------------------------------
(* Bitrate estimator.                                                      *)

\* samples_per_frame[version][layer], rows MPEG 1, MPEG 2, MPEG 2.5, unknown.
samples_per_frame ==
    << <<-1, 384, 1152, 1152>>,
       <<-1, 384, 1152,  576>>,
       <<-1, 384, 1152,  576>>,
       <<-1,  -1,   -1,   -1>> >>

\* (int) (q + 0.5) for an integer q held in a double.
PlusHalfToInt(q) == IF q >= 0 THEN q ELSE q + 1

\* compute_bitrate had the division been done in floating point, 0.5 then
\* rounding to the nearest integer (C6 tells the two apart).
compute_bitrate_Rounded(i) ==
    LET n == (i.framesize + 4) * 8 * i.rate
        d == samples_per_frame[i.version + 1][i.layer + 1]
    IN  (2 * n + d) \div (2 * d)

\* i is a struct mpg123_frameinfo; framesize is an int and rate a long, so
\* the quotient is an integer division before 0.5 is added.
compute_bitrate(i) ==
    PlusHalfToInt(CDiv((i.framesize + 4) * 8 * i.rate,
                       samples_per_frame[i.version + 1][i.layer + 1]))

\* A context whose delay counter starts at 10 (C9 tells it from the zeroed one).
Context_DelayTen ==
    [sample_size |-> 0, mean_rate |-> 0, mean_count |-> 0, delay |-> 10, vbr |-> 0]

\* The context talloc_zero returns.
ZeroContext ==
    [sample_size |-> 0, mean_rate |-> 0, mean_count |-> 0, delay |-> 0, vbr |-> 0]

\* ++con->mean_count without the rescaling (C7 detects its absence).
NextMeanCount_NoRescale(mean_count) == (mean_count + 1) % (UINT_MAX + 1)

\* ++con->mean_count, with the rescaling that follows it.
NextMeanCount(mean_count) ==
    LET inc == (mean_count + 1) % (UINT_MAX + 1)
    IN  IF inc > UINT_MAX \div 2 THEN UINT_MAX \div 4 ELSE inc

\* ((mean_count - 1) * mean_rate + bitrate) / mean_count, in float.
RunningMean(mean_count, mean_rate, bitrate) ==
    FDivInt(FAddInt(FMulInt((mean_count - 1) % (UINT_MAX + 1), mean_rate),
                    bitrate),
            mean_count)

\* The bitrate left in kilobits (C4 detects the missing conversion).
KbitToBits_Identity(kbit) == kbit

\* finfo.bitrate is expressed in kilobits.
KbitToBits(kbit) == kbit * 1000

\* con->delay-- < 1: the test on the value before the decrement (C5 detects
\* the extra frame).
DelayExpired_PostDecrement(delay) == delay < 1

\* --con->delay < 1
DelayExpired(delay) == delay - 1 < 1

\* update_info on context c with da->bitrate = daBitrate; infoRet and finfo
\* are what mpg123_info returns.  The result holds the new context and
\* da->bitrate, and for the histories: whether the variable-bitrate branch
\* rewrote the estimate (wrote) and what it divided by (divisor).
update_info(c, daBitrate, infoRet, finfo) ==
    LET bitrate == KbitToBits(finfo.bitrate)
        keep == [con |-> c, bitrate |-> daBitrate, wrote |-> FALSE, divisor |-> -1]
    IN  IF infoRet # MPG123_OK THEN keep
        ELSE IF finfo.vbr # MPG123_CBR THEN
            IF DelayExpired(c.delay) THEN
                LET cnt == NextMeanCount(c.mean_count)
                    mean == RunningMean(cnt, c.mean_rate, bitrate)
                IN  [con |-> [c EXCEPT !.mean_count = cnt, !.mean_rate = mean,
                                       !.delay = 10],
                     bitrate |-> FloatPlusHalfToInt(mean),
                     wrote |-> TRUE, divisor |-> cnt]
            ELSE [keep EXCEPT !.con = [c EXCEPT !.delay = c.delay - 1]]
        ELSE
            [con |-> [c EXCEPT !.delay = 1, !.mean_rate = 0, !.mean_count = 0],
             bitrate |-> IF bitrate # 0 THEN bitrate ELSE compute_bitrate(finfo),
             wrote |-> FALSE, divisor |-> -1]

-----------------------------------------------------------------------------
(* Feed/decode loop.                                                       *)

\* mp_audio_set_null_data(&da->decoded)
mp_audio_set_null_data(d) == [d EXCEPT !.planes0 = "NULL", !.samples = 0]

\* set_format on context c and descriptor d; fmt is what mpg123_getformat
\* returns: [ret, rate, channels, encoding].
set_format(c, d, fmt) ==
    IF fmt.ret = MPG123_OK THEN
        LET d1 == [d EXCEPT !.channels = fmt.channels, !.rate = fmt.rate]
            af == mpg123_format_to_af(fmt.encoding)
        IN  IF af = "0" THEN [ret |-> MPG123_ERR, con |-> c, da |-> d1]
            ELSE [ret |-> fmt.ret,
                  con |-> [c EXCEPT !.sample_size = fmt.channels * af_fmt2bps(af)],
                  da |-> [d1 EXCEPT !.format = af]]
    ELSE [ret |-> fmt.ret, con |-> c, da |-> d]

\* Timestamp adoption that keeps the offset (C10 detects the stale offset).
AdoptPts_KeepsOffset(d, pkt) ==
    IF pkt.pts # MP_NOPTS_VALUE THEN [d EXCEPT !.pts = pkt.pts] ELSE d

\* A packet with a timestamp sets the output timestamp and restarts the
\* offset.
AdoptPts(d, pkt) ==
    IF pkt.pts # MP_NOPTS_VALUE
    THEN [d EXCEPT !.pts = pkt.pts, !.pts_offset = 0]
    ELSE d

\* No test for MPG123_NEED_MORE (C1 detects the error it then becomes).
NeedMore_Never(decRet) == FALSE

\* The test on mpg123_decode_frame's result that ends the call with no output.
NeedMore(decRet) == decRet = MPG123_NEED_MORE

\* The failure test without MPG123_DONE among the accepted results (C2
\* detects the extra error).
DecodeFailed_DoneIsError(decRet) ==
    decRet # MPG123_OK /\ decRet # MPG123_NEW_FORMAT

\* The test on mpg123_decode_frame's result that ends the call as an error.
DecodeFailed(decRet) ==
    decRet # MPG123_OK /\ decRet # MPG123_DONE /\ decRet # MPG123_NEW_FORMAT

\* The packet source gave nothing.
NoPacket == [present |-> FALSE, pts |-> MP_NOPTS_VALUE]

\* decode_packet on context c and descriptor d.  pkt is what
\* demux_read_packet returns, feedRet what mpg123_feed returns, dec what
\* mpg123_decode_frame returns ([ret, bytes]), fmt what mpg123_getformat
\* returns and infoRet, finfo what mpg123_info returns.  The result holds the
\* return value, the new context and descriptor, and for the histories
\* whether update_info ran (frame) and what it reported.
decode_packet(c, d, pkt, feedRet, dec, fmt, infoRet, finfo) ==
    LET d0 == mp_audio_set_null_data(d)
        none == [wrote |-> FALSE, divisor |-> -1]
        d1 == AdoptPts(d0, pkt)
        sf == set_format(c, d1, fmt)
        got_samples == dec.bytes \div sf.con.sample_size
        d2 == [sf.da EXCEPT !.planes0 = "audio", !.samples = got_samples,
                            !.pts_offset = sf.da.pts_offset + got_samples]
        ui == update_info(sf.con, d2.bitrate, infoRet, finfo)
    IN  IF ~pkt.present THEN
            [ret |-> AD_EOF, con |-> c, da |-> d0, frame |-> FALSE, info |-> none]
        ELSE IF feedRet # MPG123_OK THEN
            [ret |-> AD_ERR, con |-> c, da |-> d1, frame |-> FALSE, info |-> none]
        ELSE IF NeedMore(dec.ret) THEN
            [ret |-> "0", con |-> c, da |-> d1, frame |-> FALSE, info |-> none]
        ELSE IF DecodeFailed(dec.ret) THEN
            [ret |-> AD_ERR, con |-> c, da |-> d1, frame |-> FALSE, info |-> none]
        ELSE IF sf.ret # MPG123_OK THEN
            [ret |-> AD_ERR, con |-> sf.con, da |-> sf.da, frame |-> FALSE,
             info |-> none]
        ELSE IF sf.con.sample_size < 1 THEN
            [ret |-> AD_ERR, con |-> sf.con, da |-> sf.da, frame |-> FALSE,
             info |-> none]
        ELSE
            [ret |-> "0", con |-> ui.con,
             da |-> [d2 EXCEPT !.bitrate = ui.bitrate],
             frame |-> TRUE, info |-> [wrote |-> ui.wrote, divisor |-> ui.divisor]]

-----------------------------------------------------------------------------
(* Session lifecycle.                                                      *)

\* uninit without mpg123_exit (C8 detects the reference left behind).
uninit_NoExit(h, l) ==
    [handle |-> IF h = "NULL" THEN "NULL" ELSE "deleted", lib |-> l]

\* uninit: mpg123_close, mpg123_delete and mpg123_exit on handle h with the
\* library reference l.
uninit(h, l) ==
    [handle |-> IF h = "NULL" THEN "NULL" ELSE "deleted",
     lib |-> [l EXCEPT !.exits = l.exits + 1]]

\* init with the library reference l, session handle h and context c;
\* initRet, newRet and openRet are what mpg123_init, mpg123_new and
\* mpg123_open_feed return.
init(l, h, c, initRet, newRet, openRet) ==
    LET l1 == [l EXCEPT !.inits = l.inits + 1]
        bad_end(hh) == LET u == uninit(hh, l1)
                       IN  [ret |-> "0", lib |-> u.lib, handle |-> u.handle,
                            con |-> ZeroContext]
    IN  IF initRet # MPG123_OK THEN
            [ret |-> "0", lib |-> l, handle |-> h, con |-> c]
        ELSE IF newRet = "NULL" THEN bad_end("NULL")
        ELSE IF openRet # MPG123_OK THEN bad_end("closed")
        ELSE [ret |-> "1", lib |-> l1, handle |-> "feed", con |-> ZeroContext]

\* control without mpg123_close before the reopen: a failed reopen leaves the
\* old feed session in place (C3 detects the decode that then succeeds).
control_NoClose(h, d, cmd, openRet) ==
    IF cmd = "ADCTRL_RESET" THEN
        IF openRet # MPG123_OK
        THEN [ret |-> "CONTROL_FALSE", handle |-> h,
              da |-> mp_audio_set_null_data(d)]
        ELSE [ret |-> "CONTROL_TRUE", handle |-> "feed",
              da |-> mp_audio_set_null_data(d)]
    ELSE [ret |-> "CONTROL_UNKNOWN", handle |-> h, da |-> d]

\* control on handle h and descriptor d; openRet is what mpg123_open_feed
\* returns.
control(h, d, cmd, openRet) ==
    IF cmd = "ADCTRL_RESET" THEN
        IF openRet # MPG123_OK
        THEN [ret |-> "CONTROL_FALSE", handle |-> "closed",
              da |-> mp_audio_set_null_data(d)]
        ELSE [ret |-> "CONTROL_TRUE", handle |-> "feed",
              da |-> mp_audio_set_null_data(d)]
    ELSE [ret |-> "CONTROL_UNKNOWN", handle |-> h, da |-> d]

\* What mpg123_feed can return on handle h: with no feed session open on the
\* handle it fails.
mpg123_feed(h, results) == IF h = "feed" THEN results ELSE {MPG123_ERR}

-----------------------------------------------------------------------------
(* Histories.                                                              *)

NoInfo ==
    [vbr |-> "-", bitrate |-> -1, framesize |-> -1, rate |-> -1,
     version |-> -1, layer |-> -1]
NoFormat == [ret |-> "-", rate |-> -1, channels |-> -1, encoding |-> "-"]
NoDecode == [ret |-> "-", bytes |-> -1]

\* The record of a call: op and, for a decode_packet call, the results the
\* environment gave ("-" and -1 where the call was not made).
Call(op, arg, pts, feedRet, dec, fmt, infoRet, finfo) ==
    [op |-> op, arg |-> arg, pts |-> pts, feed |-> feedRet, dec |-> dec,
     fmt |-> fmt, infoRet |-> infoRet, finfo |-> finfo]
OtherCall(op, arg) == Call(op, arg, "-", "-", NoDecode, NoFormat, "-", NoInfo)

\* Saturating count, for the histories.
Upto(n, cap) == IF n < cap THEN n ELSE cap

FreshEst ==
    [kind |-> "none", wrote |-> FALSE, since |-> 0, early |-> 0, writes |-> 0,
     divisor |-> -1, rescaled |-> FALSE, finfo |-> NoInfo]

\* The estimator history after a decoded frame: r is decode_packet's result,
\* c the context before the call.  kind classifies the frames decoded so far
\* in the session, since counts the frames after the last rewrite of the
\* estimate by the variable-bitrate branch, early the frames up to the first
\* one, writes the rewrites; finfo is the frame's information.
EstAfterFrame(e, c, r, infoRet, finfo) ==
    LET k == IF infoRet # MPG123_OK THEN "mixed"
             ELSE IF finfo.vbr = MPG123_CBR
                  THEN (IF finfo.bitrate # 0 THEN "cbr" ELSE "cbr0")
                  ELSE "vbr"
    IN  [kind |-> IF e.kind \in {"none", k} THEN k ELSE "mixed",
         wrote |-> r.info.wrote,
         since |-> IF r.info.wrote THEN 0 ELSE Upto(e.since + 1, 12),
         early |-> IF e.writes = 0 THEN Upto(e.early + 1, 12) ELSE e.early,
         writes |-> IF r.info.wrote THEN e.writes + 1 ELSE e.writes,
         divisor |-> r.info.divisor,
         rescaled |-> r.info.wrote /\ c.mean_count + 1 > UINT_MAX \div 2,
         finfo |-> finfo]

\* The timestamp history after a decode_packet call with result r.
PtsAfter(p, pkt, r) ==
    LET log0 == IF pkt.present /\ pkt.pts # MP_NOPTS_VALUE THEN <<>> ELSE p.log
    IN  [ts |-> IF pkt.present /\ pkt.pts # MP_NOPTS_VALUE THEN pkt.pts ELSE p.ts,
         log |-> IF r.ret = "0" THEN Append(log0, r.da.samples) ELSE log0]

RECURSIVE SumSeq(_)
SumSeq(q) == IF q = <<>> THEN 0 ELSE Head(q) + SumSeq(Tail(q))

-----------------------------------------------------------------------------
(* The state machine.  In is the record of sets the environment's answers   *)
(* are drawn from.                                                         *)

Init ==
    /\ lib = [inits |-> 0, exits |-> 0]
    /\ phase = "none"
    /\ handle = "NULL"
    /\ con = ZeroContext
    /\ da = [bitrate |-> 0, pts |-> MP_NOPTS_VALUE, pts_offset |-> 0,
             samples |-> 0, planes0 |-> "NULL", rate |-> 0, channels |-> 0,
             format |-> "0"]
    /\ ret = "-"
    /\ last = OtherCall("none", "-")
    /\ est = FreshEst
    /\ ptsh = [ts |-> MP_NOPTS_VALUE, log |-> <<>>]
    /\ feedh = [lost |-> FALSE, down |-> FALSE]

HostInit(In) ==
    /\ phase # "open"
    /\ lib.inits < MaxSessions
    /\ \E initRet \in In.initRet :
       \E newRet \in (IF initRet = MPG123_OK THEN In.newRet ELSE {"-"}) :
       \E openRet \in (IF newRet = "handle" THEN In.openRet ELSE {"-"}) :
          LET r == init(lib, handle, con, initRet, newRet, openRet)
          IN  /\ lib' = r.lib
              /\ handle' = r.handle
              /\ con' = r.con
              /\ ret' = r.ret
              /\ phase' = IF r.ret = "1" THEN "open" ELSE "failed"
              /\ last' = OtherCall("init", <<initRet, newRet, openRet>>)
              /\ est' = FreshEst
              /\ feedh' = [lost |-> FALSE, down |-> FALSE]
              /\ UNCHANGED <<da, ptsh>>

HostUninit ==
    /\ phase = "open"
    /\ LET r == uninit(handle, lib)
       IN  /\ lib' = r.lib
           /\ handle' = r.handle
    /\ phase' = "closed"
    /\ ret' = "-"
    /\ last' = OtherCall("uninit", "-")
    /\ UNCHANGED <<con, da, est, ptsh, feedh>>

HostControl(In) ==
    /\ phase = "open"
    /\ \E cmd \in In.cmd :
       \E openRet \in (IF cmd = "ADCTRL_RESET" THEN In.openRet ELSE {"-"}) :
          LET r == control(handle, da, cmd, openRet)
          IN  /\ handle' = r.handle
              /\ da' = r.da
              /\ ret' = r.ret
              /\ last' = OtherCall("control", <<cmd, openRet>>)
              /\ feedh' = IF cmd # "ADCTRL_RESET" THEN feedh
                           ELSE IF openRet = MPG123_OK
                                THEN [feedh EXCEPT !.down = FALSE]
                                ELSE [lost |-> TRUE, down |-> TRUE]
    /\ UNCHANGED <<lib, phase, con, est, ptsh>>

HostDecode(In) ==
    /\ phase = "open"
    /\ \E pkt \in In.pkt :
       \E feedRet \in (IF pkt.present THEN mpg123_feed(handle, In.feed) ELSE {"-"}) :
       \E dec \in (IF feedRet = MPG123_OK THEN In.dec ELSE {NoDecode}) :
       \E fmt \in (IF dec.ret \in {MPG123_OK, MPG123_DONE, MPG123_NEW_FORMAT}
                   THEN In.fmt ELSE {NoFormat}) :
       \E infoRet \in (IF /\ fmt.ret = MPG123_OK
                          /\ mpg123_format_to_af(fmt.encoding) # "0"
                          /\ fmt.channels >= 1
                       THEN In.infoRet ELSE {"-"}) :
       \E finfo \in (IF infoRet = MPG123_OK THEN In.finfo ELSE {NoInfo}) :
       \E r \in {decode_packet(con, da, pkt, feedRet, dec, fmt, infoRet, finfo)} :
       \E p \in {PtsAfter(ptsh, pkt, r)} :
              /\ r.info.wrote => est.writes < MaxWrites
              /\ Len(p.log) <= MaxRun
              /\ con' = r.con
              /\ da' = r.da
              /\ ret' = r.ret
              /\ last' = Call("decode", "-", IF pkt.present THEN pkt.pts ELSE "-",
                              feedRet, dec, fmt, infoRet, finfo)
              /\ est' = IF r.frame THEN EstAfterFrame(est, con, r, infoRet, finfo)
                        ELSE est
              /\ ptsh' = p
    /\ UNCHANGED <<lib, phase, handle, feedh>>

-----------------------------------------------------------------------------
(* The environment's answers.                                              *)

Pkt(pts) == [present |-> TRUE, pts |-> pts]
Dec(r, bytes) == [ret |-> r, bytes |-> bytes]
Fmt(r, rate, channels, encoding) ==
    [ret |-> r, rate |-> rate, channels |-> channels, encoding |-> encoding]
Finfo(vbr, bitrate, framesize, rate, version, layer) ==
    [vbr |-> vbr, bitrate |-> bitrate, framesize |-> framesize, rate |-> rate,
     version |-> version, layer |-> layer]

\* Lifecycle and error paths: every library call may fail.
LifeIn ==
    [initRet |-> {MPG123_OK, MPG123_ERR},
     newRet |-> {"handle", "NULL"},
     openRet |-> {MPG123_OK, MPG123_ERR},
     cmd |-> {"ADCTRL_RESET", "ADCTRL_OTHER"},
     pkt |-> {NoPacket, Pkt(MP_NOPTS_VALUE)},
     feed |-> {MPG123_OK, MPG123_ERR},
     dec |-> {Dec(MPG123_NEED_MORE, 0), Dec(MPG123_OK, 8),
              Dec(MPG123_DONE, 0), Dec(MPG123_NEW_FORMAT, 0),
              Dec(MPG123_ERR, 0)},
     fmt |-> {Fmt(MPG123_OK, 44100, 2, "MPG123_ENC_SIGNED_16"),
              Fmt(MPG123_OK, 44100, 0, "MPG123_ENC_SIGNED_16"),
              Fmt(MPG123_OK, 44100, 2, "MPG123_ENC_UNSIGNED_8"),
              Fmt(MPG123_ERR, 0, 0, "MPG123_ENC_SIGNED_16")},
     infoRet |-> {MPG123_OK, MPG123_ERR},
     finfo |-> {Finfo(MPG123_CBR, 128, 417, 44100, 0, 3),
                Finfo(MPG123_VBR, 192, 626, 44100, 0, 3)}]

\* Timestamps and sample counts: packets with and without a timestamp,
\* frames of two byte lengths in two output formats.
PtsIn ==
    [initRet |-> {MPG123_OK},
     newRet |-> {"handle"},
     openRet |-> {MPG123_OK},
     cmd |-> {"ADCTRL_RESET"},
     pkt |-> {NoPacket, Pkt(MP_NOPTS_VALUE), Pkt("pts1"), Pkt("pts2")},
     feed |-> {MPG123_OK, MPG123_ERR},
     dec |-> {Dec(MPG123_NEED_MORE, 0), Dec(MPG123_OK, 7), Dec(MPG123_OK, 8)},
     fmt |-> {Fmt(MPG123_OK, 44100, 1, "MPG123_ENC_SIGNED_16"),
              Fmt(MPG123_OK, 48000, 2, "MPG123_ENC_FLOAT_32")},
     infoRet |-> {MPG123_OK},
     finfo |-> {Finfo(MPG123_CBR, 128, 417, 44100, 0, 3)}]

\* Frame classification: constant, variable and average bitrate frames.
EstIn ==
    [initRet |-> {MPG123_OK},
     newRet |-> {"handle"},
     openRet |-> {MPG123_OK},
     cmd |-> {"ADCTRL_RESET"},
     pkt |-> {Pkt("pts1")},
     feed |-> {MPG123_OK},
     dec |-> {Dec(MPG123_NEED_MORE, 0), Dec(MPG123_OK, 8)},
     fmt |-> {Fmt(MPG123_OK, 44100, 2, "MPG123_ENC_SIGNED_16")},
     infoRet |-> {MPG123_OK, MPG123_ERR},
     finfo |-> {Finfo(MPG123_CBR, 128, 417, 44100, 0, 3),
                Finfo(MPG123_CBR, 192, 626, 44100, 0, 3),
                Finfo(MPG123_VBR, 128, 417, 44100, 0, 3),
                Finfo(MPG123_VBR, 192, 626, 44100, 0, 3),
                Finfo(MPG123_ABR, 128, 417, 44100, 0, 3)}]

\* Frames of every known version and layer, of several sizes and rates, that
\* report bitrate 0 or not.
RateIn ==
    [initRet |-> {MPG123_OK},
     newRet |-> {"handle"},
     openRet |-> {MPG123_OK},
     cmd |-> {"ADCTRL_RESET"},
     pkt |-> {Pkt("pts1")},
     feed |-> {MPG123_OK},
     dec |-> {Dec(MPG123_OK, 8)},
     fmt |-> {Fmt(MPG123_OK, 44100, 2, "MPG123_ENC_SIGNED_16")},
     infoRet |-> {MPG123_OK},
     finfo |-> {Finfo(MPG123_CBR, 128, 417, 44100, 0, 3),
                Finfo(MPG123_VBR, 0, 417, 44100, 0, 3)}
               \cup {Finfo(MPG123_CBR, 0, fs, 44100, v, l) :
                       fs \in {414, 417}, v \in 0..2, l \in 1..3}
               \cup {Finfo(MPG123_CBR, 0, 1044, 48000, v, l) :
                       v \in 0..2, l \in 1..3}]

Next ==
    \/ HostInit(LifeIn)
    \/ HostUninit
    \/ HostControl(LifeIn)
    \/ HostDecode(LifeIn)

Spec == Init /\ [][Next]_vars

NextPts ==
    \/ HostInit(PtsIn)
    \/ HostControl(PtsIn)
    \/ HostDecode(PtsIn)

SpecPts == Init /\ [][NextPts]_vars

NextEst ==
    \/ HostInit(EstIn)
    \/ HostDecode(EstIn)

SpecEst == Init /\ [][NextEst]_vars

NextRate ==
    \/ HostInit(RateIn)
    \/ HostDecode(RateIn)

SpecRate == Init /\ [][NextRate]_vars

\* Every float held is one the fixed-point form holds exactly.
FloatsExact == IsModelFloat(con.mean_rate)

-----------------------------------------------------------------------------
(* Properties.                                                             *)

\* The last call was decode_packet and it read a packet.
ReadPacket == last.op = "decode" /\ last.pts # "-"

\* Bytes per sample of the four encodings the adapter accepts.
BytesOf(encoding) ==
    CASE encoding = "MPG123_ENC_SIGNED_8"  -> 1
      [] encoding = "MPG123_ENC_SIGNED_16" -> 2
      [] encoding = "MPG123_ENC_SIGNED_32" -> 4
      [] encoding = "MPG123_ENC_FLOAT_32"  -> 4
      [] OTHER -> 0

KnownEncoding(encoding) ==
    encoding \in {"MPG123_ENC_SIGNED_8", "MPG123_ENC_SIGNED_16",
                  "MPG123_ENC_SIGNED_32", "MPG123_ENC_FLOAT_32"}

\* C1: a decode_packet call that read a packet, fed it successfully and got
\* MPG123_NEED_MORE from mpg123_decode_frame returns 0, neither AD_ERR nor
\* AD_EOF, with an output descriptor of zero samples and no data pointer; it
\* leaves mean_rate, mean_count, delay (the whole context) and da->bitrate as
\* they were, and pts_offset as the timestamp adoption left it: 0 after a
\* packet with a timestamp, unchanged after one without.
C1_NeedMoreIsNoOutput ==
    [][(last'.op = "decode" /\ last'.dec.ret = MPG123_NEED_MORE) =>
          /\ ret' = "0"
          /\ ret' \notin {AD_ERR, AD_EOF}
          /\ da'.samples = 0
          /\ da'.planes0 = "NULL"
          /\ con' = con
          /\ da'.bitrate = da.bitrate
          /\ da'.pts_offset =
                IF last'.pts # MP_NOPTS_VALUE THEN 0 ELSE da.pts_offset]_vars

\* C1 witness: MPG123_NEED_MORE after a packet without a timestamp, in a
\* session that has already emitted samples and set the estimator.
C1_Witness ==
    /\ last.op = "decode"
    /\ last.dec.ret = MPG123_NEED_MORE
    /\ last.pts = MP_NOPTS_VALUE
    /\ ret = "0"
    /\ da.pts_offset > 0
    /\ da.bitrate = 128000
    /\ con.delay = 1

\* The conditions C2 lists for AD_ERR, on the results the library gave.
C2_ErrorCase(c) ==
    \/ c.feed \notin {"-", MPG123_OK}
    \/ c.dec.ret \notin {"-", MPG123_NEED_MORE, MPG123_OK, MPG123_DONE,
                         MPG123_NEW_FORMAT}
    \/ c.fmt.ret \notin {"-", MPG123_OK}
    \/ c.fmt.ret = MPG123_OK /\ ~KnownEncoding(c.fmt.encoding)
    \/ /\ c.fmt.ret = MPG123_OK
       /\ KnownEncoding(c.fmt.encoding)
       /\ c.fmt.channels * BytesOf(c.fmt.encoding) < 1

\* C2: decode_packet returns AD_EOF exactly when the packet source yields no
\* packet, and AD_ERR exactly when a packet was read and mpg123_feed failed,
\* or mpg123_decode_frame returned none of NEED_MORE, OK, DONE, NEW_FORMAT, or
\* mpg123_getformat failed, or the encoding is none of the four accepted, or
\* channels x bytes per sample is below 1.  A call that returns AD_ERR or
\* AD_EOF leaves zero samples and no data in the output descriptor and does
\* not update the estimator (mean_rate, mean_count, delay, da->bitrate).
C2_ErrorClassification ==
    [][last'.op = "decode" =>
          /\ (ret' = AD_EOF) <=> (last'.pts = "-")
          /\ (ret' = AD_ERR) <=> (last'.pts # "-" /\ C2_ErrorCase(last'))
          /\ ret' \in {AD_ERR, AD_EOF} =>
                /\ da'.samples = 0
                /\ da'.planes0 = "NULL"
                /\ con'.mean_rate = con.mean_rate
                /\ con'.mean_count = con.mean_count
                /\ con'.delay = con.delay
                /\ da'.bitrate = da.bitrate]_vars

\* C2 witness: AD_ERR for a sample size below 1, with the estimator holding
\* what an earlier variable-bitrate frame left.
C2_Witness ==
    /\ ReadPacket
    /\ ret = AD_ERR
    /\ last.fmt.ret = MPG123_OK
    /\ last.fmt.channels = 0
    /\ con.sample_size = 0
    /\ con.mean_count = 1
    /\ da.bitrate = 192000

\* C3 as stated: once ADCTRL_RESET has failed to reopen the feed session
\* (control returning CONTROL_FALSE), no decode_packet call of the session
\* succeeds, whatever is done afterwards short of a new init.
C3_Original ==
    /\ (last.op = "control" /\ last.arg[1] = "ADCTRL_RESET"
            /\ last.arg[2] # MPG123_OK) => ret = "CONTROL_FALSE"
    /\ (feedh.lost /\ last.op = "decode") => ret # "0"

\* C3 amended: a failed reopen makes control return CONTROL_FALSE, and while
\* the feed session is down (until a later ADCTRL_RESET reopens it or init
\* makes a new session) every decode_packet call returns AD_ERR, or AD_EOF
\* when there is no packet; a later ADCTRL_RESET that reopens the feed
\* session returns CONTROL_TRUE.
C3_FailsUntilReopened ==
    /\ (last.op = "control" /\ last.arg[1] = "ADCTRL_RESET") =>
          /\ last.arg[2] # MPG123_OK => (ret = "CONTROL_FALSE" /\ feedh.down)
          /\ last.arg[2] = MPG123_OK => (ret = "CONTROL_TRUE" /\ ~feedh.down)
    /\ (feedh.down /\ last.op = "decode") =>
          /\ ret \in {AD_ERR, AD_EOF}
          /\ (last.pts # "-" => ret = AD_ERR)

\* C3 witness: a decode error on a session whose reset failed.
C3_Witness ==
    /\ feedh.down
    /\ ReadPacket
    /\ ret = AD_ERR
    /\ last.feed = MPG123_ERR

\* C8: init fails exactly when mpg123_init, mpg123_new or mpg123_open_feed
\* fails, then returns 0 and leaves no handle and no library reference of
\* its own; mpg123_exit is never called more often than mpg123_init has
\* succeeded, and as often once no session is open.
C8_InitExitPaired ==
    /\ lib.exits <= lib.inits
    /\ phase # "open" => lib.exits = lib.inits
    /\ phase = "open" => lib.exits + 1 = lib.inits
    /\ last.op = "init" =>
          /\ (ret = "0") <=> \/ last.arg[1] # MPG123_OK
                             \/ last.arg[2] = "NULL"
                             \/ last.arg[3] \notin {"-", MPG123_OK}
          /\ ret = "0" => (phase = "failed" /\ handle \in {"NULL", "deleted"})
          /\ ret = "1" => (phase = "open" /\ handle = "feed")

\* C8 witness: the second session's init failed at mpg123_open_feed and tore
\* the session down.
C8_Witness ==
    /\ last.op = "init"
    /\ ret = "0"
    /\ last.arg[3] = MPG123_ERR
    /\ handle = "deleted"
    /\ lib.inits = 2
    /\ lib.exits = 2

\* C4: while every frame decoded in the session was classified constant
\* bitrate with a non-zero bitrate, da->bitrate is 1000 times the bitrate (in
\* kilobits) of the last decoded frame, from the first frame on, and
\* mean_rate and mean_count are 0.
C4_CbrIsImmediate ==
    est.kind = "cbr" =>
        /\ da.bitrate = est.finfo.bitrate * 1000
        /\ con.mean_rate = 0
        /\ con.mean_count = 0

\* C4 witness: a constant-bitrate stream whose bitrate changed from 128 to
\* 192 kilobits, the estimate following at once.
C4_Witness ==
    /\ est.kind = "cbr"
    /\ est.finfo.bitrate = 192
    /\ da.bitrate = 192000
    /\ last.op = "decode"
    /\ last.dec.ret = MPG123_NEED_MORE

\* C5: while every frame decoded in the session was classified variable
\* bitrate, a frame rewrites the estimate exactly when it is the first frame
\* or 9 frames have passed since the last rewrite, and each of those 9 frames
\* leaves da->bitrate, mean_rate and mean_count unchanged.
C5_VbrEveryTenth ==
    [][(est'.kind = "vbr" /\ est' # est) =>
          /\ est'.wrote <=> (est.kind = "none" \/ est.since = 9)
          /\ ~est'.wrote =>
                /\ da'.bitrate = da.bitrate
                /\ con'.mean_rate = con.mean_rate
                /\ con'.mean_count = con.mean_count]_vars

\* C5 witness: the third rewrite of a variable-bitrate stream, whose mean now
\* differs from one input bitrate.
C5_Witness ==
    /\ est.kind = "vbr"
    /\ est.wrote
    /\ est.writes = 3
    /\ con.mean_count = 3
    /\ da.bitrate \notin {128000, 192000}

\* Nearest integer to n / d for positive n and d (halves go up).
RoundNearest(n, d) == (2 * n + d) \div (2 * d)

\* Samples per frame by version (0: MPEG 1, 1: MPEG 2, 2: MPEG 2.5) and layer.
C6_SamplesPerFrame(version, layer) ==
    IF layer = 1 THEN 384
    ELSE IF layer = 2 THEN 1152
    ELSE IF version = 0 THEN 1152 ELSE 576

\* The last call decoded a constant-bitrate frame that reports bitrate 0.
C6_ZeroCbrFrame ==
    /\ last.op = "decode"
    /\ last.finfo.vbr = MPG123_CBR
    /\ last.finfo.bitrate = 0

\* C6 as stated: the estimate after such a frame is
\* (framesize + 4) * 8 * rate / samples_per_frame rounded to the nearest
\* integer, and 134420 for MPEG 1 layer III, frame size 417, rate 44100.
C6_Original ==
    C6_ZeroCbrFrame =>
        /\ da.bitrate =
              RoundNearest((last.finfo.framesize + 4) * 8 * last.finfo.rate,
                           C6_SamplesPerFrame(last.finfo.version, last.finfo.layer))
        /\ (/\ last.finfo.version = 0
            /\ last.finfo.layer = 3
            /\ last.finfo.framesize = 417
            /\ last.finfo.rate = 44100) => da.bitrate = 134420

\* C6 amended: the estimate after such a frame is the integer quotient
\* (framesize + 4) * 8 * rate / samples_per_frame, rounded down, and 128931
\* for MPEG 1 layer III, frame size 417, rate 44100.
C6_ComputedBitrateTruncates ==
    C6_ZeroCbrFrame =>
        /\ da.bitrate =
              ((last.finfo.framesize + 4) * 8 * last.finfo.rate)
                 \div C6_SamplesPerFrame(last.finfo.version, last.finfo.layer)
        /\ (/\ last.finfo.version = 0
            /\ last.finfo.layer = 3
            /\ last.finfo.framesize = 417
            /\ last.finfo.rate = 44100) => da.bitrate = 128931

\* C6 witness: the frame of the example.
C6_Witness ==
    /\ C6_ZeroCbrFrame
    /\ last.finfo.version = 0
    /\ last.finfo.layer = 3
    /\ last.finfo.framesize = 417
    /\ last.finfo.rate = 44100
    /\ da.bitrate = 128931

\* C7: mean_count never exceeds half of UINT_MAX; the increment that would
\* exceed it leaves a quarter of UINT_MAX; and the divisor of every running
\* mean update is at least 1.
C7_MeanCountBounded ==
    /\ con.mean_count <= UINT_MAX \div 2
    /\ est.rescaled => con.mean_count = UINT_MAX \div 4
    /\ est.wrote => (est.divisor >= 1 /\ est.divisor = con.mean_count)

\* C7 witness: the increment past half of UINT_MAX has happened.
C7_Witness ==
    /\ est.rescaled
    /\ est.wrote
    /\ con.mean_count = UINT_MAX \div 4
    /\ est.divisor >= 1

\* C9 as stated: the delay counter starts at 10, so the first rewrite of the
\* estimate in a session of variable-bitrate frames comes with the 10th
\* decoded frame, not earlier.
C9_Original ==
    (est.kind = "vbr" /\ est.writes >= 1) => est.early >= 10

\* C9 amended: the delay counter of a fresh session is 0; a variable-bitrate
\* frame decrements it and rewrites the estimate when the result is below 1,
\* then sets it to 10.  In a session of variable-bitrate frames the first
\* frame rewrites the estimate, and the counter is 10 less the frames since
\* the last rewrite.
C9_FirstVbrFrameRefreshes ==
    /\ (last.op = "init" /\ ret = "1") => con.delay = 0
    /\ est.wrote => con.delay = 10
    /\ est.kind = "vbr" =>
          /\ est.writes >= 1
          /\ est.early = 1
          /\ con.delay = 10 - est.since

\* C9 witness: the estimate written by the first frame of a session.
C9_Witness ==
    /\ est.kind = "vbr"
    /\ est.early = 1
    /\ est.writes = 1
    /\ est.wrote
    /\ da.bitrate = 192000

\* C10: pts_offset is the sum of the sample counts of the calls that
\* returned 0 since, and including, the one that read the last packet with a
\* timestamp; da->pts is that timestamp (also when that call gave no output,
\* the offset then being 0); a decoded frame emits
\* floor(bytes / (channels * bytes per sample)) samples.
C10_OffsetIsSumOfSamples ==
    /\ da.pts_offset = SumSeq(ptsh.log)
    /\ da.pts = ptsh.ts
    /\ (ReadPacket /\ last.pts # MP_NOPTS_VALUE) =>
          /\ da.pts = last.pts
          /\ da.pts_offset = da.samples
    /\ (last.op = "decode" /\ ret = "0" /\ last.dec.ret # MPG123_NEED_MORE) =>
          /\ da.samples * last.fmt.channels * BytesOf(last.fmt.encoding)
                <= last.dec.bytes
          /\ last.dec.bytes
                < (da.samples + 1) * last.fmt.channels * BytesOf(last.fmt.encoding)

\* C10 witness: three calls since the packet stamped pts2: 7 bytes at 2 bytes
\* a sample, 7 bytes at 8, 8 bytes at 2.
C10_Witness ==
    /\ da.pts = "pts2"
    /\ ptsh.log = <<3, 0, 4>>
    /\ da.pts_offset = 7
    /\ last.pts = MP_NOPTS_VALUE

====
